---------------------------- MODULE Spec2Model ----------------------------
(***************************************************************************)
(* A model of the Japanese sentence-embedding fine-tuning scripts:         *)
(*   scripts/prepare_training_data.py  (JapaneseEmbeddingDataPrep)         *)
(*   models/japanese_embedder.py       (JapaneseSentenceEmbedder)          *)
(*   scripts/train_embedder.py         (EmbeddingTrainer)                  *)
(*   scripts/run_training_pipeline.py  (main and its four steps)           *)
(***************************************************************************)
EXTENDS Integers, Sequences, FiniteSets, TLC

(***************************************************************************)
(* Bounds of the model.                                                    *)
(***************************************************************************)
\* conversations in a corpus
MaxConvs == 2
\* turns in a corpus, summed over its conversations
MaxTurns == 4
\* positive pairs handed to create_contrastive_pairs directly
MaxPairs == 3
\* the epochs argument of train
MaxEpochs == 5
\* batches of the training set, and of the validation set
MaxBatches == 2
\* internal layers of the pretrained encoder
MaxLayers == 8
\* calls of unfreeze_encoder on one model
MaxCalls == 2
\* texts in the list handed to encode
MaxTexts == 3
\* the batch_size handed to encode
MaxBatchSize == 3
\* pairs in a batch handed to ContrastiveLoss
MaxLossBatch == 2

VARIABLES
    \* ---- JapaneseEmbeddingDataPrep ----
    data,           \* json.load(f): the conversations, in dict order
    dp_pc,          \* position in load_conversations / create_contrastive_pairs
    conv_idx,       \* the conversation the outer loop of load_conversations is at
    pairs,          \* the positive pairs (load_conversations' result)
    training_data,  \* the rows create_contrastive_pairs has appended
    neg_idx,        \* the pair the negative loop is at
    random_pair,    \* the last random.choice(pairs); Unbound before the first draw
    \* ---- JapaneseSentenceEmbedder: the trainable flags ----
    n_layers,           \* len(self.encoder.encoder.layer)
    encoder_trainable,  \* self.encoder.trainable
    layer_trainable,    \* layer.trainable of each internal layer, first to last
    unfreeze_calls,     \* calls of unfreeze_encoder so far
    last_num_layers,    \* the num_layers of the last call; -1 before the first
    \* ---- EmbeddingTrainer.train ----
    tr_pc,              \* position in train
    epochs,             \* the epochs argument
    epoch,              \* the loop variable
    train_batches,      \* number of batches of train_dataset
    val_batches,        \* the validation batches: the ContrastiveLoss of each
    batch_idx,          \* batches of the running loop already taken
    train_loss_tracker, \* tf.keras.metrics.Mean: total and count
    val_loss_tracker,
    val_loss,           \* the local val_loss of the running epoch
    best_val_loss,
    optimizer_steps,    \* calls of optimizer.apply_gradients: the version of the weights
    checkpoint,         \* best_embedder.h5: the version of the weights saved; -1: no file
    saved_epochs,       \* the epochs whose end wrote the checkpoint
    val_history,        \* val_loss of each finished epoch, in order
    \* ---- run_training_pipeline.main ----
    pl_pc,              \* position in main
    conversations_file, \* backend/data/history/conversations.json
    csv_files,          \* train.csv, val.csv, test.csv under data/embeddings
    checkpoint_file,    \* models/checkpoints/best_embedder.h5
    step_idx,           \* the step the loop of main is at, 1..4
    started,            \* the steps called so far, in call order
    returned,           \* what each called step returned; "raised" for an exception
    \* ---- JapaneseSentenceEmbedder.encode ----
    enc_pc,             \* position in encode
    texts,              \* the texts argument: a list of texts
    texts_is_str,       \* whether the caller passed a single str
    batch_size,
    enc_i,              \* the loop variable i
    all_embeddings,     \* one array of rows per chunk
    enc_result,         \* the array returned
    \* ---- ContrastiveLoss.call ----
    loss_pc,            \* position in call
    embeddings1,        \* one unit vector per pair
    embeddings2,
    labels,             \* one label per pair, 0 or 1
    loss_value          \* the value returned, a fraction

dpVars == <<data, dp_pc, conv_idx, pairs, training_data, neg_idx, random_pair>>

modelVars == <<n_layers, encoder_trainable, layer_trainable, unfreeze_calls,
               last_num_layers>>

trVars == <<tr_pc, epochs, epoch, train_batches, val_batches, batch_idx,
            train_loss_tracker, val_loss_tracker, val_loss, best_val_loss,
            optimizer_steps, checkpoint, saved_epochs, val_history>>

plVars == <<pl_pc, conversations_file, csv_files, checkpoint_file, step_idx, started,
            returned>>

encVars == <<enc_pc, texts, texts_is_str, batch_size, enc_i, all_embeddings, enc_result>>

lossVars == <<loss_pc, embeddings1, embeddings2, labels, loss_value>>

vars == <<dpVars, modelVars, trVars, plVars, encVars, lossVars>>

\* main not running
PipelineIdle ==
    /\ pl_pc = "idle"
    /\ conversations_file = "missing"
    /\ csv_files = [f \in {"train", "val", "test"} |-> "absent"]
    /\ checkpoint_file = "absent"
    /\ step_idx = 1
    /\ started = <<>>
    /\ returned = <<>>

\* encode not running
EncodeIdle ==
    /\ enc_pc = "idle"
    /\ texts = <<>>
    /\ texts_is_str = FALSE
    /\ batch_size = 1
    /\ enc_i = 0
    /\ all_embeddings = <<>>
    /\ enc_result = <<>>

\* ContrastiveLoss.call not running
LossIdle ==
    /\ loss_pc = "idle"
    /\ embeddings1 = <<>>
    /\ embeddings2 = <<>>
    /\ labels = <<>>
    /\ loss_value = [num |-> 0, den |-> 1]

(***************************************************************************)
(* scripts/prepare_training_data.py                                        *)
(***************************************************************************)
Texts == <<"A", "B", "C", "D", "E", "F">>

\* a turn without a 'role' key carries NoRole: reading turn['role'] raises KeyError
NoRole == "<no role>"
Roles == {"user", "assistant", NoRole}

KeyError == "KeyError"

\* the content of the j-th turn of a conversation; load_conversations copies
\* contents and never inspects them
Letter(j) == Texts[((j - 1) % Len(Texts)) + 1]

Turn(r, j) == [role |-> r, content |-> Letter(j)]

\* a conversation is a dict; has_messages says whether it has the key 'messages'
Conversation(roles) ==
    [has_messages |-> TRUE, messages |-> [j \in 1..Len(roles) |-> Turn(roles[j], j)]]

NoMessages == [has_messages |-> FALSE, messages |-> <<>>]

\* conv.get('messages', [])
GetMessages(conv) == IF conv.has_messages THEN conv.messages ELSE <<>>

PositivePair(q, r) == [query |-> q, response |-> r, label |-> 1]

\* line 20 with the second turn's role left unread
RolesMatchFirstOnly(messages, i) ==
    IF messages[i].role = NoRole THEN KeyError
    ELSE IF messages[i].role = "user" THEN "match" ELSE "skip"

\* the role test of line 20 at 1-based offset i: "KeyError" | "match" | "skip".
\* `and` short-circuits: the second turn's role is read only when the first is 'user'.
RolesMatch(messages, i) ==
    IF messages[i].role = NoRole THEN KeyError
    ELSE IF messages[i].role # "user" THEN "skip"
    ELSE IF messages[i + 1].role = NoRole THEN KeyError
    ELSE IF messages[i + 1].role = "assistant" THEN "match" ELSE "skip"

\* the inner loop, for i in range(0, len(messages)-1, 2), from 1-based offset i on,
\* with the pairs appended so far: whether KeyError was raised, and the pairs then
RECURSIVE ExtractFrom(_, _, _)
ExtractFrom(messages, i, acc) ==
    IF i + 1 > Len(messages) THEN [raised |-> FALSE, pairs |-> acc]
    ELSE LET m == RolesMatch(messages, i) IN
         IF m = KeyError THEN [raised |-> TRUE, pairs |-> acc]
         ELSE IF m = "match"
              THEN ExtractFrom(messages, i + 2,
                       Append(acc, PositivePair(messages[i].content,
                                                messages[i + 1].content)))
              ELSE ExtractFrom(messages, i + 2, acc)

\* one iteration of `for conv_id, conv in data.items()`
LoadConversation ==
    /\ dp_pc = "load"
    /\ conv_idx <= Len(data)
    /\ LET got == ExtractFrom(GetMessages(data[conv_idx]), 1, pairs) IN
       IF got.raised
       THEN /\ dp_pc' = "load_raised"
            /\ UNCHANGED <<pairs, conv_idx>>
       ELSE /\ pairs' = got.pairs
            /\ conv_idx' = conv_idx + 1
            /\ dp_pc' = "load"
    /\ UNCHANGED <<data, training_data, neg_idx, random_pair, modelVars, trVars,
                   plVars, encVars, lossVars>>

\* `return pairs`; prepare_dataset hands them to create_contrastive_pairs
LoadReturn ==
    /\ dp_pc = "load"
    /\ conv_idx > Len(data)
    /\ dp_pc' = "positives"
    /\ UNCHANGED <<data, conv_idx, pairs, training_data, neg_idx, random_pair>>
    /\ UNCHANGED <<modelVars, trVars, plVars, encVars, lossVars>>

\* random_pair before its first assignment
Unbound == [query |-> "", response |-> "", label |-> -1]

Row(t1, t2, l) == [text1 |-> t1, text2 |-> t2, label |-> l]

\* the first loop of create_contrastive_pairs
AppendPositives ==
    /\ dp_pc = "positives"
    /\ training_data' = [k \in 1..Len(pairs) |->
                            Row(pairs[k].query, pairs[k].response, 1)]
    /\ neg_idx' = 1
    /\ random_pair' = Unbound
    /\ dp_pc' = "negatives"
    /\ UNCHANGED <<data, conv_idx, pairs, modelVars, trVars, plVars, encVars, lossVars>>

\* the negative row with the drawn pair's query in place of the source pair's
NegativeRowOfDrawn(pair, drawn) == Row(drawn.query, drawn.response, 0)

\* lines 48-52: the source pair's query with the drawn pair's response
NegativeRow(pair, drawn) == Row(pair.query, drawn.response, 0)

\* `while random_pair == pair`: dicts compare by value
MustResample(drawn, pair) == drawn = pair

\* random_pair = random.choice(pairs): the first draw for a pair and every redraw
Draw ==
    /\ dp_pc = "negatives"
    /\ neg_idx <= Len(pairs)
    /\ random_pair = Unbound \/ MustResample(random_pair, pairs[neg_idx])
    /\ \E k \in 1..Len(pairs) : random_pair' = pairs[k]
    /\ UNCHANGED <<data, dp_pc, conv_idx, pairs, training_data, neg_idx>>
    /\ UNCHANGED <<modelVars, trVars, plVars, encVars, lossVars>>

\* the loop is left: the negative row is appended
AppendNegative ==
    /\ dp_pc = "negatives"
    /\ neg_idx <= Len(pairs)
    /\ random_pair # Unbound
    /\ ~MustResample(random_pair, pairs[neg_idx])
    /\ training_data' = Append(training_data, NegativeRow(pairs[neg_idx], random_pair))
    /\ neg_idx' = neg_idx + 1
    /\ random_pair' = Unbound
    /\ UNCHANGED <<data, dp_pc, conv_idx, pairs, modelVars, trVars, plVars, encVars, lossVars>>

\* return pd.DataFrame(training_data)
CreateReturn ==
    /\ dp_pc = "negatives"
    /\ neg_idx > Len(pairs)
    /\ dp_pc' = "returned"
    /\ UNCHANGED <<data, conv_idx, pairs, training_data, neg_idx, random_pair>>
    /\ UNCHANGED <<modelVars, trVars, plVars, encVars, lossVars>>

DataPrepIdle ==
    /\ data = <<>>
    /\ dp_pc = "idle"
    /\ conv_idx = 1
    /\ pairs = <<>>
    /\ training_data = <<>>
    /\ neg_idx = 1
    /\ random_pair = Unbound

CreateNext == AppendPositives \/ Draw \/ AppendNegative \/ CreateReturn


(***************************************************************************)
(* models/japanese_embedder.py: the trainable flags of the encoder         *)
(***************************************************************************)
RECURSIVE Sum(_)
Sum(q) == IF q = <<>> THEN 0 ELSE Head(q) + Sum(Tail(q))

Min(a, b) == IF a <= b THEN a ELSE b
Max(a, b) == IF a >= b THEN a ELSE b

\* the stop of the Python slice layer[:stop] of a list of L elements
SliceStop(L, stop) == IF stop < 0 THEN Max(L + stop, 0) ELSE Min(stop, L)

\* the number of leading layers `for layer in self.encoder.encoder.layer[:-num_layers]`
\* visits
FrozenPrefix(L, num_layers) == SliceStop(L, 0 - num_layers)

\* __init__: self.encoder.trainable = False; a Keras layer's trainable setter sets
\* the flag of every layer nested in it
Constructed(L) ==
    /\ n_layers = L
    /\ encoder_trainable = FALSE
    /\ layer_trainable = [k \in 1..L |-> FALSE]
    /\ unfreeze_calls = 0
    /\ last_num_layers = -1

\* unfreeze_encoder(num_layers)
UnfreezeEncoder(num_layers) ==
    /\ encoder_trainable' = TRUE
    /\ layer_trainable' = [k \in 1..n_layers |-> k > FrozenPrefix(n_layers, num_layers)]
    /\ unfreeze_calls' = unfreeze_calls + 1
    /\ last_num_layers' = num_layers
    /\ UNCHANGED n_layers

ModelIdle ==
    /\ n_layers = 0
    /\ encoder_trainable = FALSE
    /\ layer_trainable = <<>>
    /\ unfreeze_calls = 0
    /\ last_num_layers = -1

(***************************************************************************)
(* scripts/train_embedder.py: EmbeddingTrainer.train                       *)
(***************************************************************************)
\* a loss is a fraction num/den; float('inf') is 1/0
Loss(n, d) == [num |-> n, den |-> d]
Inf == Loss(1, 0)

\* a < b on fractions with den >= 0
Less(a, b) == a.num * b.den < b.num * a.den
LessOrEqual(a, b) == a.num * b.den <= b.num * a.den
SameLoss(a, b) == a.num * b.den = b.num * a.den

\* tf.keras.metrics.Mean
ResetStates == [total |-> 0, count |-> 0]
UpdateState(tracker, l) == [total |-> tracker.total + l, count |-> tracker.count + 1]
\* result(): divide_no_nan(total, count)
Result(tracker) ==
    IF tracker.count = 0 THEN Loss(0, 1) ELSE Loss(tracker.total, tracker.count * 100)

\* the ContrastiveLoss of a batch, in hundredths
BatchLosses == {0, 50}

\* encoders shallower and deeper than the 4 layers train unfreezes
LayerCounts == {3, 12}

\* line 111 with <= for <
ImprovedOrTied(val, best) == LessOrEqual(val, best)

\* line 111: val_loss < best_val_loss
Improved(val, best) == Less(val, best)

\* line 117 with >= for ==
UnfreezeFromEpoch(e) == e >= 2

\* line 117: epoch == 2
UnfreezeAt(e) == e = 2

TrainerIdle ==
    /\ tr_pc = "idle"
    /\ epochs = 0
    /\ epoch = 0
    /\ train_batches = 0
    /\ val_batches = <<>>
    /\ batch_idx = 0
    /\ train_loss_tracker = ResetStates
    /\ val_loss_tracker = ResetStates
    /\ val_loss = Loss(0, 1)
    /\ best_val_loss = Inf
    /\ optimizer_steps = 0
    /\ checkpoint = -1
    /\ saved_epochs = {}
    /\ val_history = <<>>

\* lines 83-86: the datasets are built and best_val_loss = float('inf')
TrainCalled(N, nTrain, vals) ==
    /\ tr_pc = "epoch"
    /\ epochs = N
    /\ epoch = 0
    /\ train_batches = nTrain
    /\ val_batches = vals
    /\ batch_idx = 0
    /\ train_loss_tracker = ResetStates
    /\ val_loss_tracker = ResetStates
    /\ val_loss = Loss(0, 1)
    /\ best_val_loss = Inf
    /\ optimizer_steps = 0
    /\ checkpoint = -1
    /\ saved_epochs = {}
    /\ val_history = <<>>

\* line 88, then line 92: the next epoch starts, or the loop is over
EpochBegin ==
    /\ tr_pc = "epoch"
    /\ IF epoch < epochs
       THEN /\ tr_pc' = "training"
            /\ train_loss_tracker' = ResetStates
            /\ batch_idx' = 0
       ELSE /\ tr_pc' = "completed"
            /\ UNCHANGED <<train_loss_tracker, batch_idx>>
    /\ UNCHANGED <<epochs, epoch, train_batches, val_batches, val_loss_tracker, val_loss,
                   best_val_loss, optimizer_steps, checkpoint, saved_epochs, val_history>>
    /\ UNCHANGED <<dpVars, modelVars, plVars, encVars, lossVars>>

\* line 74: what tape.gradient hands back when it does not raise
NoGradients == "None"
GradientResults == {"gradients", NoGradients}

\* lines 75-76: the optimizer update, made only for gradients that are not None
ApplyIfGradients(gradients) ==
    IF gradients # NoGradients
    THEN optimizer_steps' = optimizer_steps + 1
    ELSE UNCHANGED optimizer_steps

\* lines 93-95 and train_step: forward pass, loss, gradients, optimizer update,
\* tracker update, return
TrainStep ==
    /\ tr_pc = "training"
    /\ batch_idx < train_batches
    /\ \E loss \in BatchLosses :
          train_loss_tracker' = UpdateState(train_loss_tracker, loss)
    /\ \E gradients \in GradientResults : ApplyIfGradients(gradients)
    /\ batch_idx' = batch_idx + 1
    /\ UNCHANGED <<tr_pc, epochs, epoch, train_batches, val_batches, val_loss_tracker,
                   val_loss, best_val_loss, checkpoint, saved_epochs, val_history>>
    /\ UNCHANGED <<dpVars, modelVars, plVars, encVars, lossVars>>

\* lines 93-95: an exception of train_step (tokenizer, forward pass, optimizer) is
\* not caught in train and ends the run
TrainStepRaises ==
    /\ tr_pc = "training"
    /\ batch_idx < train_batches
    /\ tr_pc' = "failed"
    /\ UNCHANGED <<epochs, epoch, train_batches, val_batches, batch_idx,
                   train_loss_tracker, val_loss_tracker, val_loss, best_val_loss,
                   optimizer_steps, checkpoint, saved_epochs, val_history>>
    /\ UNCHANGED <<dpVars, modelVars, plVars, encVars, lossVars>>

\* lines 97-100: train_loss is read and the validation tracker reset
ValidationBegin ==
    /\ tr_pc = "training"
    /\ batch_idx = train_batches
    /\ val_loss_tracker' = ResetStates
    /\ batch_idx' = 0
    /\ tr_pc' = "validating"
    /\ UNCHANGED <<epochs, epoch, train_batches, val_batches, train_loss_tracker,
                   val_loss, best_val_loss, optimizer_steps, checkpoint, saved_epochs,
                   val_history>>
    /\ UNCHANGED <<dpVars, modelVars, plVars, encVars, lossVars>>

\* lines 101-104: the batch is unpacked and the body ends there
ValidationStep ==
    /\ tr_pc = "validating"
    /\ batch_idx < Len(val_batches)
    /\ batch_idx' = batch_idx + 1
    /\ UNCHANGED <<tr_pc, epochs, epoch, train_batches, val_batches, train_loss_tracker,
                   val_loss_tracker, val_loss, best_val_loss, optimizer_steps, checkpoint,
                   saved_epochs, val_history>>
    /\ UNCHANGED <<dpVars, modelVars, plVars, encVars, lossVars>>

\* line 106: val_loss = self.val_loss_tracker.result()
ValidationEnd ==
    /\ tr_pc = "validating"
    /\ batch_idx = Len(val_batches)
    /\ val_loss' = Result(val_loss_tracker)
    /\ tr_pc' = "checkpointing"
    /\ UNCHANGED <<epochs, epoch, train_batches, val_batches, batch_idx,
                   train_loss_tracker, val_loss_tracker, best_val_loss, optimizer_steps,
                   checkpoint, saved_epochs, val_history>>
    /\ UNCHANGED <<dpVars, modelVars, plVars, encVars, lossVars>>

\* lines 111-114 for the validation loss val of the running epoch
SaveBestModel(val) ==
    /\ val_history' = Append(val_history, val)
    /\ IF Improved(val, best_val_loss)
       THEN /\ best_val_loss' = val
            /\ checkpoint' = optimizer_steps
            /\ saved_epochs' = saved_epochs \cup {epoch}
       ELSE UNCHANGED <<best_val_loss, checkpoint, saved_epochs>>

Checkpointing ==
    /\ tr_pc = "checkpointing"
    /\ SaveBestModel(val_loss)
    /\ tr_pc' = "unfreezing"
    /\ UNCHANGED <<epochs, epoch, train_batches, val_batches, batch_idx,
                   train_loss_tracker, val_loss_tracker, val_loss, optimizer_steps>>
    /\ UNCHANGED <<dpVars, modelVars, plVars, encVars, lossVars>>

\* lines 117-119, and the loop goes on to the next epoch
Unfreezing ==
    /\ tr_pc = "unfreezing"
    /\ IF UnfreezeAt(epoch) THEN UnfreezeEncoder(4) ELSE UNCHANGED modelVars
    /\ epoch' = epoch + 1
    /\ tr_pc' = "epoch"
    /\ UNCHANGED <<epochs, train_batches, val_batches, batch_idx, train_loss_tracker,
                   val_loss_tracker, val_loss, best_val_loss, optimizer_steps, checkpoint,
                   saved_epochs, val_history>>
    /\ UNCHANGED <<dpVars, plVars, encVars, lossVars>>

BatchLossSeqs(n) == UNION {[1..k -> BatchLosses] : k \in 0..n}

InitTrain ==
    /\ DataPrepIdle
    /\ PipelineIdle
    /\ EncodeIdle
    /\ LossIdle
    /\ \E L \in LayerCounts : Constructed(L)
    /\ \E N \in 1..MaxEpochs :
       \E nTrain \in 0..MaxBatches :
       \E vals \in BatchLossSeqs(MaxBatches) : TrainCalled(N, nTrain, vals)

NextTrain ==
    \/ EpochBegin
    \/ TrainStep
    \/ TrainStepRaises
    \/ ValidationBegin
    \/ ValidationStep
    \/ ValidationEnd
    \/ Checkpointing
    \/ Unfreezing

SpecTrain == InitTrain /\ [][NextTrain]_vars

(***************************************************************************)
(* Claims about train_step.                                                *)
(***************************************************************************)
\* the calls of train_step that have returned to line 95 so far in this run
TrainStepsReturned ==
    CASE tr_pc \in {"training", "failed"} -> epoch * train_batches + batch_idx
      [] tr_pc \in {"validating", "checkpointing", "unfreezing"} ->
            (epoch + 1) * train_batches
      [] tr_pc \in {"epoch", "completed"} -> epoch * train_batches
      [] OTHER -> 0

\* C13: train_step never completes normally without having applied exactly one
\* optimizer update, so no batch of an epoch is silently skipped: at every point of
\* a run the optimizer has made as many updates as train_step has returned.
C13_OneUpdatePerReturnedStep ==
    tr_pc # "idle" => optimizer_steps = TrainStepsReturned

(***************************************************************************)
(* Claims about the training loop.                                         *)
(***************************************************************************)
\* the mean ContrastiveLoss of the validation batches (0 for no batch)
ValidationMean ==
    IF val_batches = <<>> THEN Loss(0, 1) ELSE Loss(Sum(val_batches), Len(val_batches) * 100)

\* C2: in every epoch the validation phase computes the ContrastiveLoss of every
\* validation batch and accumulates it, so the val_loss compared with best_val_loss
\* is the mean of the losses of the epoch's validation batches.
C2_ValLossIsMeanOfValidationBatches ==
    tr_pc = "checkpointing" => SameLoss(val_loss, ValidationMean)

\* C3: the encoder starts frozen and unfreeze_encoder(num_layers=4) is called once,
\* at the end of epoch index 2: the encoder is frozen while epochs 0, 1 and 2 train,
\* unfrozen while every epoch >= 3 trains, and never frozen again or unfrozen twice.
C3_UnfrozenOnceAfterEpochTwo ==
    /\ tr_pc \in {"training", "validating", "checkpointing"} =>
          (encoder_trainable <=> epoch >= 3)
    /\ unfreeze_calls = (IF epoch >= 3 THEN 1 ELSE 0)
    /\ encoder_trainable <=> unfreeze_calls = 1
    /\ unfreeze_calls = 1 => last_num_layers = 4

C3_Witness ==
    /\ epochs = 5
    /\ epoch = 4
    /\ tr_pc = "training"
    /\ batch_idx = 1
    /\ encoder_trainable
    /\ unfreeze_calls = 1

(***************************************************************************)
(* The checkpoint decision over the validation losses of a run: train with *)
(* the epoch's validation loss given.                                      *)
(***************************************************************************)
\* validation losses, in hundredths
ValLosses == {60, 65, 70, 80, 90}

\* line 106, the validation loss of the epoch being v hundredths
ValidationReports ==
    /\ tr_pc = "validating"
    /\ batch_idx = Len(val_batches)
    /\ \E v \in ValLosses : val_loss' = Loss(v, 100)
    /\ tr_pc' = "checkpointing"
    /\ UNCHANGED <<epochs, epoch, train_batches, val_batches, batch_idx,
                   train_loss_tracker, val_loss_tracker, best_val_loss, optimizer_steps,
                   checkpoint, saved_epochs, val_history>>
    /\ UNCHANGED <<dpVars, modelVars, plVars, encVars, lossVars>>

InitCkpt ==
    /\ DataPrepIdle
    /\ PipelineIdle
    /\ EncodeIdle
    /\ LossIdle
    /\ \E L \in LayerCounts : Constructed(L)
    /\ \E N \in 1..MaxEpochs : TrainCalled(N, 0, <<>>)

NextCkpt ==
    \/ EpochBegin
    \/ ValidationBegin
    \/ ValidationReports
    \/ Checkpointing
    \/ Unfreezing

SpecCkpt == InitCkpt /\ [][NextCkpt]_vars

ExampleLosses == <<Loss(90, 100), Loss(70, 100), Loss(80, 100), Loss(60, 100), Loss(65, 100)>>

\* C1: a checkpoint is written at the end of epoch e iff the epoch's validation loss
\* is strictly lower than that of every earlier epoch (ties do not overwrite), and
\* best_val_loss is then the minimum validation loss of epochs 0..e (+infinity before
\* epoch 0); losses [0.9, 0.7, 0.8, 0.6, 0.65] write after epochs 0, 1 and 3 only and
\* end with best loss 0.6.
C1_CheckpointIffStrictImprovement ==
    /\ \A e \in 0..(Len(val_history) - 1) :
          e \in saved_epochs <=> \A k \in 1..e : Less(val_history[e + 1], val_history[k])
    /\ saved_epochs \subseteq 0..(Len(val_history) - 1)
    /\ val_history = <<>> => best_val_loss = Inf
    /\ val_history # <<>> =>
          /\ \E k \in 1..Len(val_history) : SameLoss(best_val_loss, val_history[k])
          /\ \A k \in 1..Len(val_history) : LessOrEqual(best_val_loss, val_history[k])
    /\ val_history = ExampleLosses =>
          saved_epochs = {0, 1, 3} /\ SameLoss(best_val_loss, Loss(6, 10))

C1_Witness ==
    /\ tr_pc = "completed"
    /\ val_history = ExampleLosses
    /\ saved_epochs = {0, 1, 3}

(***************************************************************************)
(* unfreeze_encoder called on a constructed model.                         *)
(***************************************************************************)
UnfreezeCall ==
    /\ unfreeze_calls < MaxCalls
    /\ \E num_layers \in 0..(n_layers + 1) : UnfreezeEncoder(num_layers)
    /\ UNCHANGED <<dpVars, trVars, plVars, encVars, lossVars>>

InitUnfreeze ==
    /\ DataPrepIdle
    /\ PipelineIdle
    /\ EncodeIdle
    /\ LossIdle
    /\ TrainerIdle
    /\ \E L \in 1..MaxLayers : Constructed(L)

SpecUnfreeze == InitUnfreeze /\ [][UnfreezeCall]_vars

\* C4: for 0 <= n <= L, after unfreeze_encoder(num_layers=n) exactly the last n of
\* the L internal layers are trainable and the first L-n stay frozen; n = 0 leaves
\* every internal layer frozen.
C4_ExactlyLastLayersTrainable ==
    (unfreeze_calls > 0 /\ last_num_layers \in 0..n_layers) =>
       \A k \in 1..n_layers : layer_trainable[k] <=> k > n_layers - last_num_layers

(***************************************************************************)
(* scripts/run_training_pipeline.py: main and its steps                    *)
(***************************************************************************)
CsvNames == {"train", "val", "test"}

\* response.lower()
Lower(response) == IF response = "Y" THEN "y" ELSE response

\* line 204 with the value a step returns ignored
StepReturned(result) == result # "raised"

\* line 204: `if not step_func()` is false, so the loop goes on
StepSucceeded(result) == result = "True"

\* lines 187-193, check_data_availability: a missing or empty conversations.json
\* gives False and main asks whether to go on; an unreadable one raises out of main
CheckDataAvailability ==
    /\ pl_pc = "check"
    /\ pl_pc' = CASE conversations_file = "present" -> "steps"
                  [] conversations_file = "corrupt" -> "crashed"
                  [] OTHER -> "ask"
    /\ UNCHANGED <<conversations_file, csv_files, checkpoint_file, step_idx, started,
                   returned>>
    /\ UNCHANGED <<dpVars, modelVars, trVars, encVars, lossVars>>

\* lines 190-193
AskUser ==
    /\ pl_pc = "ask"
    /\ \E response \in {"y", "Y", "n", ""} :
          pl_pc' = IF Lower(response) # "y" THEN "exited" ELSE "steps"
    /\ UNCHANGED <<conversations_file, csv_files, checkpoint_file, step_idx, started,
                   returned>>
    /\ UNCHANGED <<dpVars, modelVars, trVars, encVars, lossVars>>

\* lines 203-207: the step at step_idx was called and gave result ("raised": an
\* exception left it, and leaves main)
StepDone(result) ==
    /\ started' = Append(started, step_idx)
    /\ returned' = Append(returned, result)
    /\ IF result = "raised"
       THEN pl_pc' = "crashed" /\ UNCHANGED step_idx
       ELSE IF StepSucceeded(result)
            THEN IF step_idx = 4
                 THEN pl_pc' = "complete" /\ UNCHANGED step_idx
                 ELSE pl_pc' = "steps" /\ step_idx' = step_idx + 1
            ELSE pl_pc' = "failed" /\ UNCHANGED step_idx

\* the CSV files after to_csv wrote the files of `written`
Written(written) == [f \in CsvNames |-> IF f \in written THEN "fresh" ELSE csv_files[f]]

\* step1_prepare_data. mkdir is outside the try; prepare_dataset and the three
\* to_csv calls are inside it, in this order
Step1PrepareData ==
    /\ pl_pc = "steps"
    /\ step_idx = 1
    /\ \/ \* output_dir.mkdir raises
          /\ StepDone("raised")
          /\ UNCHANGED csv_files
       \/ \* prepare_dataset raises: it always does without a corpus to read
          /\ StepDone("False")
          /\ UNCHANGED csv_files
       \/ \* a to_csv raises after the files of `written` were written
          /\ conversations_file = "present"
          /\ \E written \in {{}, {"train"}, {"train", "val"}} :
                csv_files' = Written(written)
          /\ StepDone("False")
       \/ /\ conversations_file = "present"
          /\ csv_files' = Written(CsvNames)
          /\ StepDone("True")
    /\ UNCHANGED <<conversations_file, checkpoint_file>>
    /\ UNCHANGED <<dpVars, modelVars, trVars, encVars, lossVars>>

\* step2_train_model. mkdir is outside the try blocks; reading the CSV files,
\* building the model and trainer.train each sit in their own
Step2TrainModel ==
    /\ pl_pc = "steps"
    /\ step_idx = 2
    /\ \/ \* model_dir.mkdir raises
          /\ StepDone("raised")
          /\ UNCHANGED checkpoint_file
       \/ \* pd.read_csv or the model's construction raises
          /\ StepDone("False")
          /\ UNCHANGED checkpoint_file
       \/ \* trainer.train raises, before or after an epoch saved the weights
          /\ csv_files["train"] # "absent" /\ csv_files["val"] # "absent"
          /\ \E f \in {checkpoint_file, "fresh"} : checkpoint_file' = f
          /\ StepDone("False")
       \/ \* train saves to models/checkpoints/ under the working directory, which
          \* is the directory step 3 reads only when main runs from the package root
          /\ csv_files["train"] # "absent" /\ csv_files["val"] # "absent"
          /\ \E f \in {checkpoint_file, "fresh"} : checkpoint_file' = f
          /\ StepDone("True")
    /\ UNCHANGED <<conversations_file, csv_files>>
    /\ UNCHANGED <<dpVars, modelVars, trVars, encVars, lossVars>>

\* step3_export_model. mkdir is outside the try; a missing checkpoint returns False
Step3ExportModel ==
    /\ pl_pc = "steps"
    /\ step_idx = 3
    /\ \/ StepDone("raised")
       \/ StepDone("False")
       \/ /\ checkpoint_file # "absent"
          /\ StepDone("True")
    /\ UNCHANGED <<conversations_file, csv_files, checkpoint_file>>
    /\ UNCHANGED <<dpVars, modelVars, trVars, encVars, lossVars>>

\* step4_test_integration returns True
Step4TestIntegration ==
    /\ pl_pc = "steps"
    /\ step_idx = 4
    /\ StepDone("True")
    /\ UNCHANGED <<conversations_file, csv_files, checkpoint_file>>
    /\ UNCHANGED <<dpVars, modelVars, trVars, encVars, lossVars>>

InitPipeline ==
    /\ DataPrepIdle
    /\ ModelIdle
    /\ TrainerIdle
    /\ EncodeIdle
    /\ LossIdle
    /\ pl_pc = "check"
    /\ conversations_file \in {"missing", "empty", "corrupt", "present"}
    /\ csv_files \in [CsvNames -> {"absent", "stale"}]
    /\ checkpoint_file \in {"absent", "stale"}
    /\ step_idx = 1
    /\ started = <<>>
    /\ returned = <<>>

NextPipeline ==
    \/ CheckDataAvailability
    \/ AskUser
    \/ Step1PrepareData
    \/ Step2TrainModel
    \/ Step3ExportModel
    \/ Step4TestIntegration

SpecPipeline == InitPipeline /\ [][NextPipeline]_vars

\* C9: main runs prepare data -> train -> export -> integration test in this order,
\* and a step starts only if every earlier step returned success: after
\* step1_prepare_data fails step2_train_model is never started, and no step runs
\* after the first failing one.
C9_StepsInOrderAndGated ==
    /\ Len(returned) = Len(started)
    /\ \A k \in 1..Len(started) :
          /\ started[k] = k
          /\ \A j \in 1..(k - 1) : returned[j] = "True"
    /\ pl_pc \in {"failed", "crashed"} /\ started # <<>> =>
          returned[Len(returned)] # "True"

C9_Witness ==
    /\ pl_pc = "failed"
    /\ started = <<1>>
    /\ returned = <<"False">>
    /\ csv_files["train"] = "fresh"
    /\ csv_files["val"] = "stale"

(***************************************************************************)
(* models/japanese_embedder.py: encode, call, mean_pooling                 *)
(***************************************************************************)
\* the texts of the model and the ids the tokenizer gives their words
TextNames == {"a", "b", "ab"}
WordIds(text) == CASE text = "a" -> <<1>> [] text = "b" -> <<2>> [] OTHER -> <<1, 2>>

\* special ids of the tokenizer
CLS == 9
PAD == 0

\* the ids of one text: [CLS] and its words
Ids(text) == <<CLS>> \o WordIds(text)

\* self.tokenizer(batch_texts, padding=True, ...): every row padded to the longest
\* row of the batch, with the attention mask of the real tokens
RECURSIVE MaxLen(_)
MaxLen(rows) ==
    IF rows = <<>> THEN 0 ELSE Max(Len(Head(rows)), MaxLen(Tail(rows)))

Tokenizer(batch_texts) ==
    LET rows == [k \in 1..Len(batch_texts) |-> Ids(batch_texts[k])]
        width == MaxLen(rows)
    IN [k \in 1..Len(rows) |->
          [input_ids |-> [t \in 1..width |-> IF t <= Len(rows[k]) THEN rows[k][t] ELSE PAD],
           attention_mask |-> [t \in 1..width |-> IF t <= Len(rows[k]) THEN 1 ELSE 0]]]

\* the pretrained encoder on one row: a real token's hidden state depends on the real
\* tokens of its row; a padded position holds a value that depends on the padding
LastHiddenState(row) ==
    LET width == Len(row.input_ids)
        context == Sum([t \in 1..width |-> row.input_ids[t] * row.attention_mask[t]])
    IN [t \in 1..width |->
          IF row.attention_mask[t] = 1 THEN 10 * row.input_ids[t] + context
          ELSE 100 + width]

\* mean_pooling: the masked sum over max(number of real tokens, 1e-9), as a fraction
MeanPooling(token_embeddings, attention_mask) ==
    [sum |-> Sum([t \in 1..Len(token_embeddings) |->
                     token_embeddings[t] * attention_mask[t]]),
     count |-> Sum(attention_mask)]

\* call on a tokenized batch: one row per text; projection and l2_normalize take the
\* pooled vector to a unit vector, which the model names by the pooled vector
Call(encoded) ==
    [k \in 1..Len(encoded) |->
        [unit_of |-> MeanPooling(LastHiddenState(encoded[k]), encoded[k].attention_mask)]]

\* lines 59-62
EncodeBegin ==
    /\ enc_pc = "called"
    /\ texts' = IF texts_is_str THEN <<texts>> ELSE texts
    /\ all_embeddings' = <<>>
    /\ enc_i' = 0
    /\ enc_pc' = "loop"
    /\ UNCHANGED <<texts_is_str, batch_size, enc_result>>
    /\ UNCHANGED <<dpVars, modelVars, trVars, plVars, lossVars>>

\* lines 64-82: one chunk texts[i:i+batch_size]
EncodeChunk ==
    /\ enc_pc = "loop"
    /\ enc_i < Len(texts)
    /\ LET batch_texts == SubSeq(texts, enc_i + 1, Min(enc_i + batch_size, Len(texts)))
       IN all_embeddings' = Append(all_embeddings, Call(Tokenizer(batch_texts)))
    /\ enc_i' = enc_i + batch_size
    /\ UNCHANGED <<enc_pc, texts, texts_is_str, batch_size, enc_result>>
    /\ UNCHANGED <<dpVars, modelVars, trVars, plVars, lossVars>>

RECURSIVE Concat(_)
Concat(arrays) == IF arrays = <<>> THEN <<>> ELSE Head(arrays) \o Concat(Tail(arrays))

\* line 84: np.vstack raises ValueError on an empty list of arrays
EncodeReturn ==
    /\ enc_pc = "loop"
    /\ enc_i >= Len(texts)
    /\ IF all_embeddings = <<>>
       THEN enc_pc' = "raised" /\ UNCHANGED enc_result
       ELSE enc_pc' = "returned" /\ enc_result' = Concat(all_embeddings)
    /\ UNCHANGED <<texts, texts_is_str, batch_size, enc_i, all_embeddings>>
    /\ UNCHANGED <<dpVars, modelVars, trVars, plVars, lossVars>>

TextLists == UNION {[1..n -> TextNames] : n \in 0..MaxTexts}

InitEncode ==
    /\ DataPrepIdle
    /\ ModelIdle
    /\ TrainerIdle
    /\ PipelineIdle
    /\ LossIdle
    /\ enc_pc = "called"
    /\ \/ texts_is_str = TRUE /\ texts \in TextNames
       \/ texts_is_str = FALSE /\ texts \in TextLists
    /\ batch_size \in 1..MaxBatchSize
    /\ enc_i = 0
    /\ all_embeddings = <<>>
    /\ enc_result = <<>>

NextEncode == EncodeBegin \/ EncodeChunk \/ EncodeReturn

SpecEncode == InitEncode /\ [][NextEncode]_vars

\* the embedding of one text encoded on its own
EmbeddingOf(text) == Call(Tokenizer(<<text>>))[1]

EncodeInOrder ==
    /\ Len(enc_result) = Len(texts)
    /\ \A k \in 1..Len(texts) : enc_result[k] = EmbeddingOf(texts[k])

\* C10: for every sequence of texts of any length and every batch_size >= 1, encode
\* returns one embedding per input text, in input order, whatever the chunking; a
\* single string is taken as a one-element sequence and gives one embedding.
C10_OneEmbeddingPerTextInOrder ==
    /\ enc_pc # "raised"
    /\ enc_pc = "returned" => EncodeInOrder
    /\ enc_pc = "returned" /\ texts_is_str => Len(enc_result) = 1

\* encode on a non-empty input returns, one embedding per text, in input order
EncodeNonEmptyInOrder ==
    /\ enc_pc = "raised" => texts = <<>>
    /\ enc_pc = "returned" => EncodeInOrder

(***************************************************************************)
(* models/japanese_embedder.py: ContrastiveLoss.call                       *)
(***************************************************************************)
\* unit vectors of the plane, with coordinates in fifths
UnitVectors == {<<5, 0>>, <<3, 4>>, <<0, 5>>, <<-5, 0>>}

\* the dot product of two unit vectors, in 25ths: their cosine
Cosine(a, b) == a[1] * b[1] + a[2] * b[2]

Frac(n, d) == [num |-> n, den |-> d]

\* fractions with positive denominators
FracEq(x, y) == x.num * y.den = y.num * x.den
FracLess(x, y) == x.num * y.den < y.num * x.den
OneMinus(x) == Frac(x.den - x.num, x.den)
Square(x) == Frac(x.num * x.num, x.den * x.den)
MaxZero(x) == IF x.num > 0 THEN x ELSE Frac(0, x.den)
Scale(k, x) == Frac(k * x.num, x.den)

\* the sum of fractions of one denominator
RECURSIVE SumFracs(_)
SumFracs(q) ==
    IF Len(q) = 1 THEN Head(q)
    ELSE Frac(Head(q).num + SumFracs(Tail(q)).num, Head(q).den)

\* tf.reduce_mean of a vector of fractions of one denominator
ReduceMean(q) == Frac(SumFracs(q).num, SumFracs(q).den * Len(q))

\* self.cosine_sim(embeddings1, embeddings2): a tfk.losses.CosineSimilarity object
\* gives the negated cosine of each pair, reduced to their mean over the batch
CosineSim(e1, e2) ==
    ReduceMean([i \in 1..Len(e1) |-> Frac(0 - Cosine(e1[i], e2[i]), 25)])

\* lines 101-108
ContrastiveLossCall(e1, e2, lab) ==
    LET similarity == OneMinus(CosineSim(e1, e2))
        positive_loss == [i \in 1..Len(lab) |-> Scale(lab[i], Square(OneMinus(similarity)))]
        negative_loss == [i \in 1..Len(lab) |-> Scale(1 - lab[i], Square(MaxZero(similarity)))]
        loss == [i \in 1..Len(lab) |->
                    Frac(positive_loss[i].num + negative_loss[i].num, positive_loss[i].den)]
    IN ReduceMean(loss)

LossCall ==
    /\ loss_pc = "called"
    /\ loss_value' = ContrastiveLossCall(embeddings1, embeddings2, labels)
    /\ loss_pc' = "returned"
    /\ UNCHANGED <<embeddings1, embeddings2, labels>>
    /\ UNCHANGED <<dpVars, modelVars, trVars, plVars, encVars>>

InitLoss ==
    /\ DataPrepIdle
    /\ ModelIdle
    /\ TrainerIdle
    /\ PipelineIdle
    /\ EncodeIdle
    /\ loss_pc = "called"
    /\ \E n \in 1..MaxLossBatch :
          /\ embeddings1 \in [1..n -> UnitVectors]
          /\ embeddings2 \in [1..n -> UnitVectors]
          /\ labels \in [1..n -> {0, 1}]
    /\ loss_value = Frac(0, 1)

SpecLoss == InitLoss /\ [][LossCall]_vars

\* the cosine similarity of pair i itself
Sim(i) == Frac(Cosine(embeddings1[i], embeddings2[i]), 25)

\* label_i * (1 - sim_i)^2 + (1 - label_i) * max(sim_i, 0)^2
PairTerm(i) ==
    LET pos == Scale(labels[i], Square(OneMinus(Sim(i))))
        neg == Scale(1 - labels[i], Square(MaxZero(Sim(i))))
    IN Frac(pos.num + neg.num, pos.den)

\* C11: ContrastiveLoss returns the batch mean of
\* label_i*(1 - sim_i)^2 + (1 - label_i)*max(sim_i, 0)^2 with sim_i the cosine
\* similarity of pair i itself; so a label-0 pair with sim_i <= 0 and a label-1 pair
\* with sim_i = 1 contribute 0.
C11_LossIsMeanOfPairTerms ==
    loss_pc = "returned" =>
       /\ FracEq(loss_value, ReduceMean([i \in 1..Len(labels) |-> PairTerm(i)]))
       /\ (\A i \in 1..Len(labels) :
              \/ labels[i] = 1 /\ FracEq(Sim(i), Frac(1, 1))
              \/ labels[i] = 0 /\ ~FracLess(Frac(0, 1), Sim(i)))
          => loss_value.num = 0

(***************************************************************************)
(* prepare_dataset on a corpus: load_conversations, then                   *)
(* create_contrastive_pairs on its result.                                 *)
(***************************************************************************)
\* the turns before conversation c, given each conversation's length (-1: no 'messages')
RECURSIVE TurnsBefore(_, _)
TurnsBefore(lens, c) ==
    IF c <= 1 THEN 0
    ELSE TurnsBefore(lens, c - 1) + (IF lens[c - 1] < 0 THEN 0 ELSE lens[c - 1])

Corpus(lens, roles) ==
    [c \in 1..Len(lens) |->
        IF lens[c] < 0 THEN NoMessages
        ELSE Conversation([j \in 1..lens[c] |-> roles[TurnsBefore(lens, c) + j]])]

InitLoad ==
    /\ ModelIdle
    /\ TrainerIdle
    /\ PipelineIdle
    /\ EncodeIdle
    /\ LossIdle
    /\ \E n \in 0..MaxConvs :
       \E lens \in [1..n -> -1..MaxTurns] :
          LET total == TurnsBefore(lens, n + 1) IN
          /\ total <= MaxTurns
          /\ \E roles \in [1..total -> Roles] : data = Corpus(lens, roles)
    /\ dp_pc = "load"
    /\ conv_idx = 1
    /\ pairs = <<>>
    /\ training_data = <<>>
    /\ neg_idx = 1
    /\ random_pair = Unbound

NextLoad == LoadConversation \/ LoadReturn \/ CreateNext

SpecLoad == InitLoad /\ [][NextLoad]_vars

(***************************************************************************)
(* Claims about load_conversations.                                        *)
(***************************************************************************)
\* the 1-based even offsets i of a turn list with i+1 inside it
EvenOffsets(m) == [k \in 1..(Len(m) \div 2) |-> 2 * k - 1]

IsQA(m, i) == m[i].role = "user" /\ m[i + 1].role = "assistant"

\* the (user, assistant) pairs of a turn list at its even offsets, in turn order
QAPairs(m) ==
    LET offs == SelectSeq(EvenOffsets(m), LAMBDA i : IsQA(m, i)) IN
    [k \in 1..Len(offs) |-> PositivePair(m[offs[k]].content, m[offs[k] + 1].content)]

RECURSIVE QAPairsUpTo(_, _)
QAPairsUpTo(d, c) ==
    IF c = 0 THEN <<>> ELSE QAPairsUpTo(d, c - 1) \o QAPairs(GetMessages(d[c]))

WellFormed(conv) ==
    conv.has_messages /\ \A j \in 1..Len(conv.messages) : conv.messages[j].role # NoRole

LoadReturned == dp_pc \in {"positives", "negatives", "returned"}

Range(s) == {s[k] : k \in 1..Len(s)}

ExampleCorpus == <<Conversation(<<"user", "assistant", "user", "assistant">>)>>

\* C6: a malformed conversation (no 'messages', or a turn with no 'role') is skipped
\* without raising: load_conversations returns, and its result holds every positive
\* pair of every well-formed conversation of the corpus.
C6_MalformedConversationSkipped ==
    /\ dp_pc # "load_raised"
    /\ LoadReturned =>
          \A c \in 1..Len(data) :
             WellFormed(data[c]) => Range(QAPairs(data[c].messages)) \subseteq Range(pairs)

\* C7: load_conversations emits a positive pair for exactly the even offsets whose
\* turns are (user, assistant), in turn order, and nothing for other offsets or an odd
\* trailing turn; for [user:A, assistant:B, user:C, assistant:D] the positives are
\* (A,B,1), (C,D,1) and create_contrastive_pairs adds the negatives (A,D,0), (C,B,0).
C7_PositivesAtEvenOffsets ==
    /\ dp_pc = "load" => pairs = QAPairsUpTo(data, conv_idx - 1)
    /\ LoadReturned => pairs = QAPairsUpTo(data, Len(data))
    /\ (data = ExampleCorpus /\ LoadReturned) =>
          pairs = <<PositivePair("A", "B"), PositivePair("C", "D")>>
    /\ (data = ExampleCorpus /\ dp_pc = "returned") =>
          training_data = <<Row("A", "B", 1), Row("C", "D", 1),
                            Row("A", "D", 0), Row("C", "B", 0)>>

C7_Witness == data = ExampleCorpus /\ dp_pc = "returned"

(***************************************************************************)
(* create_contrastive_pairs on a pool of positive pairs.                   *)
(***************************************************************************)
Queries == {"A", "C"}
Responses == {"B", "D"}

InitPairs ==
    /\ ModelIdle
    /\ TrainerIdle
    /\ PipelineIdle
    /\ EncodeIdle
    /\ LossIdle
    /\ data = <<>>
    /\ conv_idx = 1
    /\ \E n \in 0..MaxPairs :
       \E qs \in [1..n -> Queries] :
       \E rs \in [1..n -> Responses] :
          pairs = [k \in 1..n |-> PositivePair(qs[k], rs[k])]
    /\ dp_pc = "positives"
    /\ training_data = <<>>
    /\ neg_idx = 1
    /\ random_pair = Unbound

SpecPairs == InitPairs /\ [][CreateNext]_vars

(***************************************************************************)
(* Claims about create_contrastive_pairs.                                  *)
(***************************************************************************)
\* the negative row generated from pairs[k], once appended
NegativeOf(k) == training_data[Len(pairs) + k]

NegativesAppended == IF dp_pc \in {"negatives", "returned"} THEN neg_idx - 1 ELSE 0

\* C5: no emitted negative pair has the (text1, text2) of the positive pair it was
\* generated from, also when two positive pairs share the same response text.
C5_NegativeDiffersFromSource ==
    \A k \in 1..NegativesAppended :
       ~(/\ NegativeOf(k).text1 = pairs[k].query
         /\ NegativeOf(k).text2 = pairs[k].response)

\* the source pair's resampling loop (lines 45-46) is running or about to run
InRejectionLoop == dp_pc = "negatives" /\ neg_idx <= Len(pairs)

\* some element of the pool ends the loop when drawn
SomeDrawAccepted == \E k \in 1..Len(pairs) : ~MustResample(pairs[k], pairs[neg_idx])

\* C12: for every pool of more than one positive pair the resampling loop terminates
\* for every source pair under fair random choice, also when the pool holds pairs
\* that are equal by value: so, whenever the loop runs for a source pair of such a
\* pool, random.choice can return an element that ends it.
C12_RejectionLoopCanTerminate ==
    (InRejectionLoop /\ Len(pairs) > 1) => SomeDrawAccepted

\* C8: whenever create_contrastive_pairs returns on P positive pairs its output has
\* exactly 2*P rows: the P positives with label 1, then one label-0 row per positive
\* with that positive's query and the response of some pair of the pool.
C8_TwoRowsPerPositive ==
    dp_pc = "returned" =>
       /\ Len(training_data) = 2 * Len(pairs)
       /\ \A k \in 1..Len(pairs) :
             /\ training_data[k] = Row(pairs[k].query, pairs[k].response, 1)
             /\ NegativeOf(k).label = 0
             /\ NegativeOf(k).text1 = pairs[k].query
             /\ \E j \in 1..Len(pairs) : NegativeOf(k).text2 = pairs[j].response

C8_Witness ==
    /\ dp_pc = "returned"
    /\ Len(pairs) = 3
    /\ pairs[1].query # pairs[2].query
    /\ NegativeOf(1).text2 # pairs[1].response

=============================================================================
